---- MODULE Spec2Model ----
(***************************************************************************)
(* PrintSphere order intake: POST /api/orders, DELETE /api/orders/:id and  *)
(* the two IStorage implementations of createOrder (DatabaseStorage, the   *)
(* one the server exports, and MemStorage); and the price calculators of   *)
(* lib/pricing with the point-of-sale forms that put their results on the  *)
(* cart; the cart of CartProvider up to the checkout; the status of an     *)
(* order under PATCH /api/orders/:id/status; and the routes under          *)
(* /api/customers with their middleware.                                   *)
(*                                                                         *)
(* Strings are sequences of one-character strings, so that padStart,       *)
(* substr and the template literals are computed as the code computes them.*)
(***************************************************************************)
EXTENDS Integers, Sequences, FiniteSets

(* ------------------------------ bounds -------------------------------- *)
\* POST /api/orders requests over a behaviour, any number of them concurrent;
\* they are numbered in the order they arrive
NumReqs == 2
\* DELETE /api/orders/:id requests accepted over a behaviour
MaxDeletes == 1
\* line items in one request body
MaxItems == 1
\* the last instant the clock reaches; a day has TicksPerDay instants
MaxTime == 2
\* instants per day: the first is 00:00:00.000, the last 23:59:59.999
TicksPerDay == 3
\* the largest value Math.floor(Math.random() * 1000) takes
MaxSuffix == 1
\* MemStorage.createOrder calls over a behaviour
MaxMemCalls == 3
\* the largest number of copies of a document
MaxCopies == 2
\* the largest quantity of a lamination or standard line
MaxQuantity == 10
\* the largest number of eyelets of a tarpaulin
MaxEyelets == 6
MaxOtherCalls == 2
NumStatusOrders == 2
NumCards == 2
MaxCustomers == 2
MaxLines == 3

(* --------------------------- JavaScript strings ------------------------ *)
Digits == <<"0", "1", "2", "3", "4", "5", "6", "7", "8", "9">>

RECURSIVE String(_)
String(n) ==
  IF n < 10 THEN <<Digits[n + 1]>>
  ELSE String(n \div 10) \o <<Digits[(n % 10) + 1]>>

RECURSIVE padStart(_, _, _)
padStart(s, targetLength, ch) ==
  IF Len(s) >= targetLength THEN s
  ELSE padStart(<<ch>> \o s, targetLength, ch)

\* String.prototype.substr(-n): the last n characters
substrLast(s, n) ==
  IF Len(s) <= n THEN s ELSE SubSeq(s, Len(s) - n + 1, Len(s))

(* ------------------------------- the clock ----------------------------- *)
StartDate == [year |-> 2025, month |-> 8, date |-> 30]

DaysInMonth(m) ==
  IF m = 1 THEN 28 ELSE IF m \in {3, 5, 8, 10} THEN 30 ELSE 31

NextDate(d) ==
  IF d.date < DaysInMonth(d.month) THEN [d EXCEPT !.date = d.date + 1]
  ELSE IF d.month < 11 THEN [d EXCEPT !.month = d.month + 1, !.date = 1]
  ELSE [year |-> d.year + 1, month |-> 0, date |-> 1]

RECURSIVE DateOfDay(_)
DateOfDay(k) == IF k = 0 THEN StartDate ELSE NextDate(DateOfDay(k - 1))

DayOf(t) == t \div TicksPerDay

\* new Date() at instant t: getFullYear / getMonth / getDate
NewDate(t) == DateOfDay(DayOf(t))

\* setHours(0, 0, 0, 0) and setHours(23, 59, 59, 999)
todayStart(t) == DayOf(t) * TicksPerDay
todayEnd(t) == DayOf(t) * TicksPerDay + (TicksPerDay - 1)

(* --------------------------- order numbers ----------------------------- *)
dateString(d) ==
  substrLast(String(d.year), 2)
    \o padStart(String(d.month + 1), 2, "0")
    \o padStart(String(d.date), 2, "0")

\* the JavaScript value of `count + 1`, as String() renders it: count(*) is a
\* bigint, which the pg driver hands over as text unless a parser is
\* registered, and then + concatenates
PlusOne(count, asText) ==
  IF asText THEN String(count) \o String(1) ELSE String(count + 1)

sequentialNum(countPlusOne) == padStart(countPlusOne, 4, "0")

\* `ORD-${dateString}-${sequentialNum}`
OrderNumberOf(ds, seqnum) == <<"O", "R", "D", "-">> \o ds \o <<"-">> \o seqnum

\* `ORD-${dateString}-${sequentialNum}-${randomSuffix}`
WithSuffix(num, rnd) == num \o <<"-">> \o padStart(String(rnd), 3, "0")

(* ------------------------- request bodies ------------------------------ *)
ds0 == dateString(StartDate)

\* CheckoutModal: `ORD-${dateString}-${randomNum}` with randomNum =
\* String(Math.floor(1000 + Math.random() * 9000)), here the draw 1000
clientOrderNumber == OrderNumberOf(ds0, String(1000))

\* req.body.orderNumber: absent, "" or a text the caller made up; the column
\* is text, so the schema accepts "ORD-1" as it accepts "ORD-250930-0002"
SuppliedNumbers ==
  { <<>>,
    OrderNumberOf(ds0, sequentialNum(String(2))),
    <<"O", "R", "D", "-", "1">>,
    clientOrderNumber }

\* a line item of req.body.items: accepted or rejected by
\* insertOrderItemSchema.parse
ItemKinds == {"ok", "invalid"}

RECURSIVE SeqsUpTo(_, _)
SeqsUpTo(S, n) ==
  IF n = 0 THEN {<<>>}
  ELSE LET shorter == SeqsUpTo(S, n - 1)
       IN shorter \cup {Append(q, x) : q \in {p \in shorter : Len(p) = n - 1}, x \in S}

Bodies ==
  { b \in [hasOrderNumber : BOOLEAN, orderNumber : SuppliedNumbers,
           items : SeqsUpTo(ItemKinds, MaxItems)] :
      b.hasOrderNumber \/ b.orderNumber = <<>> }

\* insertOrderSchema.parse: order_number is notNull without a default, so
\* the key is required; any string, the empty one included, is accepted
insertOrderSchema(body) == body.hasOrderNumber

\* insertOrderItemSchema.parse
insertOrderItemSchema(item) == item # "invalid"

(* --------------------------- JavaScript numbers ------------------------ *)
\* A finite Number is the exact fraction n/d in lowest terms, d > 0; NaN,
\* undefined and null are values of their own.  Prices are sums and products
\* of a few decimals, so what is computed here is the formula the code
\* applies, to exact precision.
RECURSIVE GCD(_, _)
GCD(a, b) == IF b = 0 THEN a ELSE GCD(b, a % b)

Abs(n) == IF n < 0 THEN 0 - n ELSE n

Frac(n, d) ==
  LET g == GCD(Abs(n), d)
  IN [t |-> "number", n |-> n \div g, d |-> d \div g]

Num(n) == Frac(n, 1)

NaN == [t |-> "NaN", n |-> 0, d |-> 1]

undefined == [t |-> "undefined", n |-> 0, d |-> 1]

null == [t |-> "null", n |-> 0, d |-> 1]

\* Number(x)
Number(x) ==
  IF x.t = "number" THEN x ELSE IF x.t = "null" THEN Num(0) ELSE NaN

\* isNaN(x)
isNaN(x) == Number(x).t = "NaN"

\* x used as a condition: 0, NaN, undefined and null are falsy
truthy(x) == x.t = "number" /\ x.n # 0

\* x || y
OrElse(x, y) == IF truthy(x) THEN x ELSE y

\* x + y, x * y, x / y on Numbers.  The code divides by 2 and by a page count
\* it has tested > 0 only.
Plus(x, y) ==
  LET a == Number(x)
      b == Number(y)
  IN IF isNaN(a) \/ isNaN(b) THEN NaN
     ELSE Frac(a.n * b.d + b.n * a.d, a.d * b.d)

Times(x, y) ==
  LET a == Number(x)
      b == Number(y)
  IN IF isNaN(a) \/ isNaN(b) THEN NaN
     ELSE Frac(a.n * b.n, a.d * b.d)

Over(x, y) ==
  LET a == Number(x)
      b == Number(y)
  IN IF isNaN(a) \/ isNaN(b) \/ b.n = 0 THEN NaN
     ELSE IF b.n > 0 THEN Frac(a.n * b.d, a.d * b.n)
     ELSE Frac(0 - a.n * b.d, a.d * (0 - b.n))

\* x > y and x >= y: false as soon as one side is NaN
Gt(x, y) ==
  LET a == Number(x)
      b == Number(y)
  IN ~isNaN(a) /\ ~isNaN(b) /\ a.n * b.d > b.n * a.d

Geq(x, y) ==
  LET a == Number(x)
      b == Number(y)
  IN ~isNaN(a) /\ ~isNaN(b) /\ a.n * b.d >= b.n * a.d

(* ------------------------------ lib/pricing ---------------------------- *)
\* defaultPricingRules, the fields the calculators read
defaultPricingRules ==
  [document |->
     [colorPageRate |-> Num(2),
      blackPageRate |-> Num(1),
      paperTypes |->
        [p \in {"Standard", "Glossy", "Matte", "High Quality"} |->
           CASE p = "Standard" -> Num(0)
             [] p = "Glossy" -> Num(1)
             [] p = "Matte" -> Frac(3, 2)
             [] OTHER -> Num(2)]],
   tarpaulin |->
     [basePrice |-> Num(25), eyelets |-> Num(10), rope |-> Num(50),
      stand |-> Num(200)],
   lamination |->
     [sizes |->
        [s \in {"ID Size", "Big ID", "A4", "Long", "A5"} |->
           CASE s = "ID Size" -> Num(1)
             [] s = "Big ID" -> Frac(3, 2)
             [] s = "A4" -> Frac(5, 2)
             [] s = "Long" -> Num(2)
             [] OTHER -> Frac(9, 5)],
      basePrice |-> Num(25)]]

\* the object defaultPricingRules as it is now: `export const` fixes the
\* binding, the fields stay writable, and a default parameter reads them at
\* the time of the call
VARIABLES pricingDefaults

\* a calculator call that writes into the object it takes its defaults from
pricingDefaultsAfterCallRepriced(defaults) ==
  [defaults EXCEPT !.tarpaulin.stand = Plus(defaults.tarpaulin.stand, Num(1)),
                   !.lamination.basePrice = Plus(defaults.lamination.basePrice, Num(1)),
                   !.document.blackPageRate = Plus(defaults.document.blackPageRate, Num(1))]

\* the object after a calculator call: the three functions assign to locals
\* only and return fresh objects of numbers and strings
pricingDefaultsAfterCall(defaults) == defaults

\* a parameter declared `rules = defaultPricingRules.x`
OrDefault(rules, dflt) == IF rules = undefined THEN dflt ELSE rules

\* copies && !isNaN(Number(copies)) ? Number(copies) : 2
copiesCountDefaultTwo(copies) ==
  IF truthy(copies) /\ ~isNaN(Number(copies)) THEN Number(copies) ELSE Num(2)

\* copies && !isNaN(Number(copies)) ? Number(copies) : 1
copiesCount(copies) ==
  IF truthy(copies) /\ ~isNaN(Number(copies)) THEN Number(copies) ELSE Num(1)

\* the lookup miss priced as one peso per page
paperTypeRateMissIsOne(paperType, rules) ==
  IF paperType # "" /\ paperType \in DOMAIN rules.paperTypes
  THEN rules.paperTypes[paperType] ELSE Num(1)

\* paperType && rules.paperTypes[paperType] !== undefined ? ... : 0.0
paperTypeRate(paperType, rules) ==
  IF paperType # "" /\ paperType \in DOMAIN rules.paperTypes
  THEN rules.paperTypes[paperType] ELSE Num(0)

\* the surcharge left out of the per-page rate
pageRateNoSurcharge(rate, surcharge) == rate

\* rules.colorPageRate + paperTypeRate, rules.blackPageRate + paperTypeRate,
\* baseRate + paperTypeRate
pageRate(rate, surcharge) == Plus(rate, surcharge)

calculateDocumentPrintingPrice(params, rules0, documentAnalysis) ==
  IF params = null
  THEN [unitPrice |-> Num(0), total |-> Num(0), breakdown |-> <<>>]
  ELSE
    LET rules == OrDefault(rules0, pricingDefaults.document)
        copies == copiesCount(params.copies)
        surcharge == paperTypeRate(params.paperType, rules)
    IN IF params.colorMode = "Auto Detect" /\ documentAnalysis # undefined
       THEN
         LET colorPages == OrElse(documentAnalysis.colorPages, Num(0))
             bwPages == OrElse(documentAnalysis.bwPages, Num(0))
             totalPages == Plus(colorPages, bwPages)
             colorPageRate == pageRate(rules.colorPageRate, surcharge)
             blackPageRate == pageRate(rules.blackPageRate, surcharge)
             colorPagesTotal == Times(colorPages, colorPageRate)
             bwPagesTotal == Times(bwPages, blackPageRate)
             totalPerCopy == Plus(colorPagesTotal, bwPagesTotal)
         IN [unitPrice |-> IF Gt(totalPages, Num(0))
                           THEN Over(totalPerCopy, totalPages) ELSE Num(0),
             total |-> Times(totalPerCopy, copies),
             breakdown |->
               [colorPages |-> colorPages, bwPages |-> bwPages,
                totalPages |-> totalPages, colorPageRate |-> colorPageRate,
                blackPageRate |-> blackPageRate,
                colorPagesTotal |-> colorPagesTotal,
                bwPagesTotal |-> bwPagesTotal, totalPerCopy |-> totalPerCopy,
                copies |-> copies]]
       ELSE
         LET baseRate ==
               IF params.colorMode = "Color" THEN rules.colorPageRate
               ELSE IF params.colorMode = "Black & White" THEN rules.blackPageRate
               ELSE Over(Plus(rules.colorPageRate, rules.blackPageRate), Num(2))
             rate == pageRate(baseRate, surcharge)
             totalPerCopy == rate
         IN [unitPrice |-> rate,
             total |-> Times(totalPerCopy, copies),
             breakdown |->
               [baseRate |-> baseRate, paperTypeRate |-> surcharge,
                pageRate |-> rate, copies |-> copies]]

\* width && !isNaN(Number(width)) ? Number(width) : 0, and the same test on
\* height and eyelets
safeWidth(width) ==
  IF truthy(width) /\ ~isNaN(Number(width)) THEN Number(width) ELSE Num(0)

safeHeight(height) ==
  IF truthy(height) /\ ~isNaN(Number(height)) THEN Number(height) ELSE Num(0)

safeEyelets(eyelets) ==
  IF truthy(eyelets) /\ ~isNaN(Number(eyelets)) THEN Number(eyelets) ELSE Num(0)

\* one eyelet charged whatever the count
eyeletCostFlat(eyelets, rules) == rules.eyelets

\* safeEyelets * rules.eyelets
eyeletCost(eyelets, rules) == Times(safeEyelets(eyelets), rules.eyelets)

\* the rope charged when it is left out
ropeCostInverted(rope, rules) == IF rope THEN Num(0) ELSE rules.rope

\* rope ? rules.rope : 0
ropeCost(rope, rules) == IF rope THEN rules.rope ELSE Num(0)

\* the stand taken off the price
standCostAsRebate(stand, rules) ==
  IF stand THEN Times(Num(0 - 1), rules.stand) ELSE Num(0)

\* stand ? rules.stand : 0
standCost(stand, rules) == IF stand THEN rules.stand ELSE Num(0)

calculateTarpaulinPrintingPrice(params, rules0) ==
  IF params = null
  THEN [unitPrice |-> Num(0), total |-> Num(0), breakdown |-> <<>>]
  ELSE
    LET rules == OrDefault(rules0, pricingDefaults.tarpaulin)
        area == Times(safeWidth(params.width), safeHeight(params.height))
        baseCost == Times(area, rules.basePrice)
        total ==
          Plus(Plus(Plus(baseCost, eyeletCost(params.eyelets, rules)),
                    ropeCost(params.rope, rules)),
               standCost(params.stand, rules))
    IN [unitPrice |-> baseCost,
        total |-> total,
        breakdown |->
          [dimensions |-> <<safeWidth(params.width), " x ",
                            safeHeight(params.height), " ft">>,
           area |-> area,
           baseCost |-> baseCost,
           eyeletCost |-> eyeletCost(params.eyelets, rules),
           eyelets |-> safeEyelets(params.eyelets),
           ropeCost |-> ropeCost(params.rope, rules),
           standCost |-> standCost(params.stand, rules)]]

\* size && rules.sizes[size] !== undefined ? rules.sizes[size] : 1.0
sizeMultiplier(size, rules) ==
  IF size # "" /\ size \in DOMAIN rules.sizes THEN rules.sizes[size] ELSE Num(1)

\* quantity && !isNaN(Number(quantity)) ? Number(quantity) : 1
safeQuantity(quantity) ==
  IF truthy(quantity) /\ ~isNaN(Number(quantity)) THEN Number(quantity)
  ELSE Num(1)

\* the breakdown reporting the quantity as it came in
calculateLaminationPriceRawQuantity(params, rules0) ==
  IF params = null
  THEN [unitPrice |-> Num(0), total |-> Num(0), breakdown |-> <<>>]
  ELSE
    LET rules == OrDefault(rules0, pricingDefaults.lamination)
        unitPrice == Times(rules.basePrice, sizeMultiplier(params.size, rules))
    IN [unitPrice |-> unitPrice,
        total |-> Times(unitPrice, safeQuantity(params.quantity)),
        breakdown |->
          [basePrice |-> rules.basePrice,
           sizeMultiplier |-> sizeMultiplier(params.size, rules),
           quantity |-> Number(params.quantity)]]

calculateLaminationPrice(params, rules0) ==
  IF params = null
  THEN [unitPrice |-> Num(0), total |-> Num(0), breakdown |-> <<>>]
  ELSE
    LET rules == OrDefault(rules0, pricingDefaults.lamination)
        unitPrice == Times(rules.basePrice, sizeMultiplier(params.size, rules))
    IN [unitPrice |-> unitPrice,
        total |-> Times(unitPrice, safeQuantity(params.quantity)),
        breakdown |->
          [basePrice |-> rules.basePrice,
           sizeMultiplier |-> sizeMultiplier(params.size, rules),
           quantity |-> safeQuantity(params.quantity)]]

(* --------------------------- the point-of-sale forms ------------------- *)
\* z.coerce.number().min(min): Number(x) must be a number not below min
coerceMin(x, min) == Geq(Number(x), min)

\* formSchema of DocumentPrintingForm
documentFormSchema(values) ==
  /\ values.paperSize # ""
  /\ values.paperType # ""
  /\ coerceMin(values.copies, Num(1))
  /\ values.colorMode # ""

\* formSchema of TarpaulinPrintingForm
tarpaulinFormSchema(values) ==
  /\ coerceMin(values.width, Frac(1, 10))
  /\ coerceMin(values.height, Frac(1, 10))
  /\ coerceMin(values.eyelets, Num(0))

\* formSchema of LaminationForm
laminationFormSchema(values) ==
  /\ values.size # ""
  /\ coerceMin(values.quantity, Num(1))

\* formSchema of StandardServiceForm; serviceId is set with the service
standardFormSchema(values) == coerceMin(values.quantity, Num(1))

\* the rules written out in the price effect of DocumentPrintingForm
formRules ==
  [colorPageRate |-> Num(14),
   blackPageRate |-> Num(7),
   paperTypes |-> defaultPricingRules.document.paperTypes]

\* rules.paperTypes[validPaperType] || 0
paperTypeCost(validPaperType) ==
  IF validPaperType \in DOMAIN formRules.paperTypes
  THEN OrElse(formRules.paperTypes[validPaperType], Num(0)) ELSE Num(0)

\* the price effect of DocumentPrintingForm: what it hands to
\* setPriceCalculation.  Its catch block is never entered, nothing in the
\* try block throws.
documentPriceEffect(values, documentAnalysis) ==
  LET validPaperType ==
        IF values.paperType # "" THEN values.paperType ELSE "Standard"
      validCopies ==
        IF Gt(values.copies, Num(0)) THEN values.copies ELSE Num(1)
      validColorMode ==
        IF values.colorMode # "" THEN values.colorMode ELSE "Black & White"
  IN IF /\ validColorMode = "Auto Detect"
        /\ documentAnalysis # undefined
        /\ ~documentAnalysis.isAnalyzing
     THEN
       LET validColorPages == OrElse(documentAnalysis.colorPages, Num(0))
           validBwPages == OrElse(documentAnalysis.bwPages, Num(0))
           validPageCount ==
             OrElse(documentAnalysis.pageCount, Plus(validColorPages, validBwPages))
           colorPageRate == Plus(formRules.colorPageRate, paperTypeCost(validPaperType))
           bwPageRate == Plus(formRules.blackPageRate, paperTypeCost(validPaperType))
           totalPerCopy ==
             Plus(Times(validColorPages, colorPageRate),
                  Times(validBwPages, bwPageRate))
       IN [unitPrice |-> IF Gt(validPageCount, Num(0))
                         THEN Over(totalPerCopy, validPageCount) ELSE Num(0),
           total |-> Times(totalPerCopy, validCopies),
           breakdown |->
             [colorPages |-> validColorPages, bwPages |-> validBwPages,
              colorPageRate |-> colorPageRate, bwPageRate |-> bwPageRate]]
     ELSE
       LET baseRate ==
             IF validColorMode = "Color" THEN formRules.colorPageRate
             ELSE formRules.blackPageRate
           ratePerPage == Plus(baseRate, paperTypeCost(validPaperType))
           estimatedPages ==
             IF documentAnalysis = undefined THEN Num(1)
             ELSE OrElse(documentAnalysis.pageCount, Num(1))
       IN [unitPrice |-> ratePerPage,
           total |-> Times(Times(ratePerPage, estimatedPages), validCopies),
           breakdown |->
             [baseRate |-> baseRate, paperTypeCost |-> paperTypeCost(validPaperType),
              estimatedPages |-> estimatedPages, copies |-> validCopies]]

\* StandardServiceForm.onSubmit: unitPrice and total of the cart line
standardPrice(service, values) ==
  [unitPrice |-> service.basePrice,
   total |-> Times(service.basePrice, values.quantity)]

(* ------------------------ pricing: the calls made ---------------------- *)
\* an option left unset reads "": like undefined it is falsy and differs from
\* every option name, the only two tests the code makes on it
PaperTypes == {"", "Standard", "Glossy", "Bond"}

ColorModes == {"", "Color", "Black & White", "Auto Detect"}

LaminationSizes == {"", "ID Size", "A4", "A3"}

CopiesValues ==
  {undefined, NaN, Frac(1, 2)} \cup {Num(q) : q \in (0 - 1) .. MaxCopies}

QuantityValues == {undefined, NaN} \cup {Num(q) : q \in (0 - 1) .. MaxQuantity}

EyeletValues == {undefined, NaN} \cup {Num(e) : e \in (0 - 1) .. MaxEyelets}

Feet == {Num(0 - 1), Num(0), Num(3), Num(4), Frac(5, 2)}

\* what analyzeDocument leaves in documentAnalysis: pageCount pages, of which
\* colorPages in colour
DocumentAnalyses ==
  { [pageCount |-> Num(c + b), colorPages |-> Num(c), bwPages |-> Num(b),
     isAnalyzing |-> a] : c \in {0, 1, 4}, b \in {0, 1, 6}, a \in BOOLEAN }

\* pricingRules of the selected service; undefined leaves the default in place
DocumentRuleSets ==
  { undefined,
    [colorPageRate |-> Num(2), blackPageRate |-> Num(1),
     paperTypes |-> [p \in {"Glossy"} |-> Num(1)]],
    formRules }

TarpaulinRuleSets ==
  { undefined,
    [basePrice |-> Num(12), eyelets |-> Num(5), rope |-> Num(0), stand |-> Num(150)] }

LaminationRuleSets ==
  { undefined,
    [sizes |-> [s \in {"ID Size"} |-> Num(1)], basePrice |-> Num(25)] }

StandardServices == { [basePrice |-> Num(5)], [basePrice |-> Frac(3, 2)] }

DocumentCalls ==
  [kind : {"document"},
   params : {null} \cup [paperSize : {"A4"}, paperType : PaperTypes,
                         copies : CopiesValues, colorMode : ColorModes],
   rules : DocumentRuleSets,
   documentAnalysis : {undefined} \cup DocumentAnalyses]

TarpaulinCalls ==
  [kind : {"tarpaulin"},
   params : {null} \cup [width : Feet, height : Feet, eyelets : EyeletValues,
                         rope : BOOLEAN, stand : BOOLEAN],
   rules : TarpaulinRuleSets]

LaminationCalls ==
  [kind : {"lamination"},
   params : {null} \cup [size : LaminationSizes, quantity : QuantityValues],
   rules : LaminationRuleSets]

\* StandardServiceForm with a service selected and a quantity typed in
StandardCalls ==
  [kind : {"standard"}, service : StandardServices,
   values : [quantity : QuantityValues]]

Calls == DocumentCalls \cup TarpaulinCalls \cup LaminationCalls \cup StandardCalls

NoCall == [kind |-> "none"]

(* ------------------------------- state --------------------------------- *)
VARIABLES
  now,          \* the clock
  countAsText,  \* whether the driver hands count(*) over as text
  orders,       \* table orders
  orderItems,   \* table order_items
  ordersIdSeq,  \* serial of orders.id
  itemsIdSeq,   \* serial of order_items.id
  reqs,         \* POST /api/orders handlers in flight
  del,          \* DELETE /api/orders/:id handler
  deletes,      \* delete requests accepted so far
  issued,       \* history: <<order id, order number, generated>> of every insert
  memOrders,        \* MemStorage.orders
  memOrderNumbers,  \* MemStorage.orderNumbers
  orderCurrentId,   \* MemStorage.orderCurrentId
  memCalls,         \* MemStorage.createOrder calls so far
  memLast,          \* history: the last MemStorage.createOrder call
  call,             \* the calculator call or form entry being priced
  price,            \* what the calculator returned, null before the call
  priceCalculation, \* the form's priceCalculation state
  cart,             \* CartProvider items
  priceAgain,       \* what the same call returned the second time
  otherCalls        \* calculator calls made between the two

VARIABLES
  orderStatus,  \* column status of the orders the status board shows
  shown,        \* order.status as each OrderCard last fetched it
  patched       \* the answer to the last PATCH /api/orders/:id/status

statusVars == <<orderStatus, shown, patched>>

VARIABLES
  customers,      \* table customers: id -> name, "" for no row
  customerIdSeq,  \* serial of customers.id
  lastReq,        \* history: the last request under /api/customers
  lastRes         \* history: how it was answered

accessVars == <<customers, customerIdSeq, lastReq, lastRes>>

VARIABLES
  discount,  \* CartProvider discount
  pending,   \* a form's onSubmit waiting for convertFileToBase64
  lines,     \* cart lines made so far
  added,     \* history: the lines addItem was called with
  removed,   \* history: the lines removeItem or clearCart took out
  checkout   \* the order the last checkout sent to POST /api/orders

cartVars == <<discount, pending, lines, added, removed, checkout>>
calcVars == <<call, price, priceCalculation, pricingDefaults, priceAgain, otherCalls>>
restVars == <<statusVars, accessVars, cartVars>>

dbVars == <<countAsText, orders, orderItems, ordersIdSeq, itemsIdSeq, reqs,
            del, deletes, issued>>
memVars == <<memOrders, memOrderNumbers, orderCurrentId, memCalls, memLast>>
priceVars == <<call, price, priceCalculation, cart, pricingDefaults, priceAgain,
              otherCalls>>
vars == <<now, dbVars, memVars, priceVars, restVars>>

Reqs == 1 .. NumReqs

StatusOrders == 1 .. NumStatusOrders
Cards == 1 .. NumCards

\* ORDER_STATUS, in the order of the workflow
ORDER_STATUS == <<"pending", "in_progress", "ready", "completed">>

Stage(status) == CHOOSE i \in 1 .. Len(ORDER_STATUS) : ORDER_STATUS[i] = status

\* req.body.status: the four of the workflow and one that is none of them
RequestedStatuses == {"pending", "in_progress", "ready", "completed", "cancelled"}

\* the checkout creates every order with status "pending"
StatusInit ==
  /\ orderStatus = [id \in StatusOrders |-> "pending"]
  /\ shown = [c \in Cards |-> [id \in StatusOrders |-> "pending"]]
  /\ patched = 0

\* users.role of the session, "none" without a session
Roles == {"none", "staff", "cashier", "admin"}

CustomerIds == 1 .. MaxCustomers
CustomerNames == {"Ana", "Ben"}

NoReq == [role |-> "none", method |-> "", path |-> <<>>]
NoRes == [status |-> 0, route |-> 0, customers |-> {}, changed |-> FALSE]

AccessInit ==
  /\ customers = [id \in CustomerIds |-> ""]
  /\ customerIdSeq = 1
  /\ lastReq = NoReq
  /\ lastRes = NoRes

\* item.amount of a cart line, in pesos
Amounts == {10, 20}

\* what is typed into the discount field, as an amount and as a percentage
FixedDiscounts == {0, 10, 30}
PercentageDiscounts == {50, 100}

NoPending == [items |-> <<>>, item |-> [line |-> 0, amount |-> 0]]
NoCheckout == [total |-> 0, discount |-> 0, amounts |-> <<>>, receipt |-> FALSE]

CartInit ==
  /\ discount = 0
  /\ pending = NoPending
  /\ lines = 0
  /\ added = {}
  /\ removed = {}
  /\ checkout = NoCheckout

\* the instants the clock can show when it is read next
Later == now .. MaxTime

IdleReq ==
  [pc |-> "idle", at |-> 0, orderNumber |-> <<>>, items |-> <<>>, orderId |-> 0,
   idx |-> 1, status |-> 0, generated |-> FALSE, attempts |-> 0,
   collided |-> FALSE, written |-> 0, failed |-> FALSE]

\* removed: history, the order_items rows step 1 of deleteOrder deleted
IdleDel == [pc |-> "idle", orderId |-> 0, status |-> 0, removed |-> {}]

(* ------------------------ DatabaseStorage ------------------------------ *)
\* the column declared without .unique()
UniqueViolationUnchecked(tbl, orderNumber) == FALSE

\* orders.order_number is .unique(): the insert raises when the value is taken
UniqueViolation(tbl, orderNumber) == \E o \in tbl : o.orderNumber = orderNumber

\* select count(*) from orders where created_at > todayStart and created_at < todayEnd
todayOrders(tbl, t) ==
  Cardinality({o \in tbl : o.createdAt > todayStart(t) /\ o.createdAt < todayEnd(t)})

\* the number createOrder generates when the request carries none
GeneratedNumber(tbl, t, asText) ==
  OrderNumberOf(dateString(NewDate(t)),
                sequentialNum(PlusOne(todayOrders(tbl, t), asText)))

\* order_items.order_id references orders.id
ItemForeignKeysOk(tbl, orderId) == \E o \in tbl : o.id = orderId

\* the catch block of the route: 400 for a ZodError, 500 for anything else
handleZodError(err) == IF err = "ZodError" THEN 400 ELSE 500

\* the loop stopping one item short
MoreItemsOffByOne(items, idx) == idx < Len(items)

\* for (const item of items): is there an item at position idx
MoreItems(items, idx) == idx <= Len(items)

Failed(rq, err) ==
  [rq EXCEPT !.pc = "done", !.status = handleZodError(err), !.failed = TRUE,
             !.at = 0, !.idx = 1]

\* POST /api/orders up to the first await: body split, insertOrderSchema.parse,
\* and the synchronous head of storage.createOrder
PostOrders(r, body, t) ==
  /\ reqs[r].pc = "idle"
  /\ now' = t
  /\ \A q \in Reqs : q < r => reqs[q].pc # "idle"
  /\ insertOrderSchema(body) \/ t = now
  /\ reqs' = [reqs EXCEPT ![r] =
       IF ~insertOrderSchema(body) THEN Failed(IdleReq, "ZodError")
       ELSE [IdleReq EXCEPT !.pc = IF body.orderNumber = <<>> THEN "count" ELSE "insert",
                            !.at = IF body.orderNumber = <<>> THEN t ELSE 0,
                            !.orderNumber = body.orderNumber,
                            !.items = body.items]]
  /\ UNCHANGED <<countAsText, orders, orderItems, ordersIdSeq, itemsIdSeq,
                 del, deletes, issued, memVars, priceVars, restVars>>

\* createOrder: the count query runs and the order number is built
CountToday(r) ==
  /\ reqs[r].pc = "count"
  /\ LET num == GeneratedNumber(orders, reqs[r].at, countAsText)
     IN reqs' = [reqs EXCEPT ![r] =
          [@ EXCEPT !.pc = "insert", !.orderNumber = num, !.generated = TRUE,
                    !.at = 0]]
  /\ UNCHANGED <<now, countAsText, orders, orderItems, ordersIdSeq, itemsIdSeq,
                 del, deletes, issued, memVars, priceVars, restVars>>

\* createOrder: insert into orders ... returning
InsertOrder(r, t) ==
  /\ reqs[r].pc = "insert"
  /\ now' = t
  /\ IF UniqueViolation(orders, reqs[r].orderNumber)
     THEN /\ t = now
          /\ reqs' = [reqs EXCEPT ![r] =
                         [Failed(reqs[r], "DatabaseError") EXCEPT
                            !.collided = TRUE, !.attempts = reqs[r].attempts + 1]]
          /\ UNCHANGED <<orders, ordersIdSeq, issued>>
     ELSE /\ orders' = orders \cup {[id |-> ordersIdSeq,
                                     orderNumber |-> reqs[r].orderNumber,
                                     createdAt |-> t]}
          /\ ordersIdSeq' = ordersIdSeq + 1
          /\ issued' = issued \cup {<<ordersIdSeq, reqs[r].orderNumber, reqs[r].generated>>}
          /\ reqs' = [reqs EXCEPT ![r] =
               [@ EXCEPT !.orderId = ordersIdSeq,
                         !.attempts = reqs[r].attempts + 1,
                         !.pc = IF Len(reqs[r].items) > 0 /\ MoreItems(reqs[r].items, 1)
                                THEN "items" ELSE "respond"]]
  /\ UNCHANGED <<countAsText, orderItems, itemsIdSeq, del, deletes, memVars, priceVars, restVars>>

\* one turn of the item loop: insertOrderItemSchema.parse, storage.createOrderItem
InsertItem(r) ==
  /\ reqs[r].pc = "items"
  /\ LET rq == reqs[r]
         item == rq.items[rq.idx]
     IN IF ~insertOrderItemSchema(item)
        THEN /\ reqs' = [reqs EXCEPT ![r] = Failed(rq, "ZodError")]
             /\ UNCHANGED <<orderItems, itemsIdSeq>>
        ELSE IF ~ItemForeignKeysOk(orders, rq.orderId)
        THEN /\ reqs' = [reqs EXCEPT ![r] = Failed(rq, "DatabaseError")]
             /\ UNCHANGED <<orderItems, itemsIdSeq>>
        ELSE /\ orderItems' = orderItems \cup {[id |-> itemsIdSeq, orderId |-> rq.orderId]}
             /\ itemsIdSeq' = itemsIdSeq + 1
             /\ reqs' = [reqs EXCEPT ![r] =
                  [rq EXCEPT !.written = rq.written + 1,
                             !.idx = rq.idx + 1,
                             !.pc = IF MoreItems(rq.items, rq.idx + 1)
                                    THEN "items" ELSE "respond"]]
  /\ UNCHANGED <<now, countAsText, orders, ordersIdSeq, del, deletes, issued, memVars, priceVars, restVars>>

\* res.status(201).json({ order, items: orderItems })
Respond(r) ==
  /\ reqs[r].pc = "respond"
  /\ reqs' = [reqs EXCEPT ![r] = [@ EXCEPT !.pc = "done", !.status = 201, !.idx = 1]]
  /\ UNCHANGED <<now, countAsText, orders, orderItems, ordersIdSeq, itemsIdSeq,
                 del, deletes, issued, memVars, priceVars, restVars>>

\* DELETE /api/orders/:id, deleteOrder step 1: delete from order_items
DeleteItems(id) ==
  /\ del.pc \in {"idle", "done"}
  /\ deletes < MaxDeletes
  /\ deletes' = deletes + 1
  /\ orderItems' = {i \in orderItems : i.orderId # id}
  /\ del' = [pc |-> "order", orderId |-> id, status |-> 0,
              removed |-> {i \in orderItems : i.orderId = id}]
  /\ UNCHANGED <<now, countAsText, orders, ordersIdSeq, itemsIdSeq, reqs,
                 issued, memVars, priceVars, restVars>>

\* deleteOrder step 2: delete from orders; rowCount decides 200 or 404, an
\* order_items row still referencing the order makes the statement throw
DeleteOrderRow ==
  /\ del.pc = "order"
  /\ IF \E i \in orderItems : i.orderId = del.orderId
     THEN /\ del' = [del EXCEPT !.pc = "done", !.status = 500]
          /\ UNCHANGED orders
     ELSE /\ orders' = {o \in orders : o.id # del.orderId}
          /\ del' = [del EXCEPT !.pc = "done",
                                !.status = IF \E o \in orders : o.id = del.orderId
                                           THEN 200 ELSE 404]
  /\ UNCHANGED <<now, countAsText, orderItems, ordersIdSeq, itemsIdSeq, reqs,
                 deletes, issued, memVars, priceVars, restVars>>

(* ---------------------------- order status ----------------------------- *)
\* OrderCard.getNextStatus; "" for null
getNextStatus(status) ==
  IF status = "pending" THEN "in_progress"
  ELSE IF status = "in_progress" THEN "ready"
  ELSE IF status = "ready" THEN "completed"
  ELSE ""

\* the route's check of req.body.status: membership in the list, the stored
\* status is not read
statusAccepted(current, status) ==
  status \in {"pending", "in_progress", "ready", "completed"}

\* PATCH /api/orders/:id/status with storage.updateOrderStatus: 400, 404 or
\* the update and 200
PatchStatus(id, status) ==
  LET current == IF id \in StatusOrders THEN orderStatus[id] ELSE ""
  IN IF ~statusAccepted(current, status)
     THEN /\ patched' = 400
          /\ UNCHANGED orderStatus
     ELSE IF id \notin StatusOrders
     THEN /\ patched' = 404
          /\ UNCHANGED orderStatus
     ELSE /\ orderStatus' = [orderStatus EXCEPT ![id] = status]
          /\ patched' = 200

\* a caller of the API sends the request
PatchOrderStatus(id, status) ==
  /\ PatchStatus(id, status)
  /\ UNCHANGED <<now, dbVars, memVars, priceVars, accessVars, cartVars, shown>>

\* OrderCard: the button of nextStatus is pressed, statusMutation sends the
\* PATCH and, answered, invalidates the order queries of this client
HandleStatusChange(c, id) ==
  /\ getNextStatus(shown[c][id]) # ""
  /\ PatchStatus(id, getNextStatus(shown[c][id]))
  /\ shown' = [shown EXCEPT ![c] = orderStatus']
  /\ UNCHANGED <<now, dbVars, memVars, priceVars, accessVars, cartVars>>

\* a client's query of /api/orders is fetched again
RefetchOrders(c) ==
  /\ shown[c] # orderStatus
  /\ shown' = [shown EXCEPT ![c] = orderStatus]
  /\ UNCHANGED <<now, dbVars, memVars, priceVars, accessVars, cartVars, orderStatus,
                 patched>>

(* --------------------------- customer routes --------------------------- *)
isAuthenticated == [name |-> "isAuthenticated", roles |-> {}]

hasRole(roles) == [name |-> "hasRole", roles |-> roles]

\* the routes under /api/customers in the order registerRoutes adds them;
\* path is what follows /api/customers
CustomerRoutes ==
  << [method |-> "GET", path |-> <<>>, use |-> <<isAuthenticated>>,
      handler |-> "getCustomers"],
     [method |-> "GET", path |-> <<":id">>, use |-> <<isAuthenticated>>,
      handler |-> "getCustomer"],
     [method |-> "GET", path |-> <<":id", "orders">>, use |-> <<isAuthenticated>>,
      handler |-> "getOrdersByCustomerId"],
     [method |-> "POST", path |-> <<>>, use |-> <<isAuthenticated>>,
      handler |-> "createCustomer"],
     [method |-> "PATCH", path |-> <<":id">>, use |-> <<isAuthenticated>>,
      handler |-> "updateCustomer"],
     [method |-> "DELETE", path |-> <<":id">>, use |-> <<isAuthenticated>>,
      handler |-> "deleteCustomer"],
     [method |-> "GET", path |-> <<>>,
      use |-> <<isAuthenticated, hasRole({"admin", "cashier"})>>,
      handler |-> "getCustomers"],
     [method |-> "GET", path |-> <<"search">>,
      use |-> <<isAuthenticated, hasRole({"admin", "cashier"})>>,
      handler |-> "getCustomerByName"],
     [method |-> "GET", path |-> <<":id">>,
      use |-> <<isAuthenticated, hasRole({"admin", "cashier"})>>,
      handler |-> "getCustomer"],
     [method |-> "POST", path |-> <<>>,
      use |-> <<isAuthenticated, hasRole({"admin", "cashier"})>>,
      handler |-> "createCustomer"],
     [method |-> "PATCH", path |-> <<":id">>,
      use |-> <<isAuthenticated, hasRole({"admin", "cashier"})>>,
      handler |-> "updateCustomer"],
     [method |-> "DELETE", path |-> <<":id">>,
      use |-> <<isAuthenticated, hasRole({"admin", "cashier"})>>,
      handler |-> "deleteCustomer"] >>

\* the requests made: every method on the collection, on a row, on
\* /search and on a row's orders
\* an id below 10 as a path segment
IdSegment(id) == String(id)[1]

CustomerPaths ==
  {<<>>, <<"search">>} \cup {<<IdSegment(id)>> : id \in 1 .. MaxCustomers + 1}
    \cup {<<IdSegment(1), "orders">>}

\* a route of the router matches method and path, `:id` taking any segment
Matches(route, method, path) ==
  /\ route.method = method
  /\ Len(route.path) = Len(path)
  /\ \A i \in 1 .. Len(path) :
       route.path[i] = ":id" \/ route.path[i] = path[i]

\* the router takes the first route registered that matches; 0 for none
FirstMatch(method, path) ==
  LET hits == {i \in 1 .. Len(CustomerRoutes) : Matches(CustomerRoutes[i], method, path)}
  IN IF hits = {} THEN 0 ELSE CHOOSE i \in hits : \A j \in hits : i <= j

\* the status one middleware answers with, 0 when it calls next()
Refusal(middleware, role) ==
  IF role = "none" THEN 401
  ELSE IF middleware.name = "hasRole" /\ role \notin middleware.roles THEN 403
  ELSE 0

\* the middleware of a route run in order up to the first that answers
FirstRefusal(use, role) ==
  LET refusing == {i \in 1 .. Len(use) : Refusal(use[i], role) # 0}
  IN IF refusing = {} THEN 0
     ELSE Refusal(use[CHOOSE i \in refusing : \A j \in refusing : i <= j], role)

\* parseInt(req.params.id): 0 for NaN
parseInt(seg) ==
  IF seg \in {IdSegment(id) : id \in 1 .. MaxCustomers + 1}
  THEN CHOOSE id \in 1 .. MaxCustomers + 1 : IdSegment(id) = seg
  ELSE 0

Stored(table, id) == id \in CustomerIds /\ table[id] # ""

\* a request under /api/customers from its arrival to its answer: the
\* router picks the route, its middleware runs, then its handler. body is
\* req.body.name, "" where insertCustomerSchema rejects the body; nan is the
\* answer to a select by id NaN, which the driver may reject
CustomerRequest(role, method, path, body, nan) ==
  LET r == FirstMatch(method, path)
      route == CustomerRoutes[r]
      refused == FirstRefusal(route.use, role)
      id == IF Len(path) > 0 THEN parseInt(path[1]) ELSE 0
      rows == {customers[i] : i \in {j \in CustomerIds : customers[j] # ""}}
      Answer(status, data) ==
        lastRes' = [status |-> status, route |-> r, customers |-> data,
                    changed |-> customers' # customers]
  IN /\ lastReq' = [role |-> role, method |-> method, path |-> path]
     /\ IF r = 0
        THEN /\ UNCHANGED <<customers, customerIdSeq>>
             /\ Answer(404, {})
        ELSE IF refused # 0
        THEN /\ UNCHANGED <<customers, customerIdSeq>>
             /\ Answer(refused, {})
        ELSE IF route.handler = "getCustomers"
        THEN /\ UNCHANGED <<customers, customerIdSeq>>
             /\ Answer(200, rows)
        ELSE IF route.handler = "getCustomerByName"
        THEN /\ UNCHANGED <<customers, customerIdSeq>>
             /\ Answer(200, rows)
        ELSE IF route.handler = "getCustomer"
        THEN /\ UNCHANGED <<customers, customerIdSeq>>
             /\ IF Stored(customers, id) THEN Answer(200, {customers[id]})
                ELSE IF id = 0 THEN Answer(nan, {})
                ELSE Answer(404, {})
        ELSE IF route.handler = "getOrdersByCustomerId"
        THEN /\ UNCHANGED <<customers, customerIdSeq>>
             /\ Answer(200, {})
        ELSE IF route.handler = "createCustomer"
        THEN IF body = "" THEN /\ UNCHANGED <<customers, customerIdSeq>>
                               /\ Answer(400, {})
             ELSE IF customerIdSeq > MaxCustomers
             THEN /\ UNCHANGED <<customers, customerIdSeq>>
                  /\ Answer(500, {})
             ELSE /\ customers' = [customers EXCEPT ![customerIdSeq] = body]
                  /\ customerIdSeq' = customerIdSeq + 1
                  /\ Answer(201, {body})
        ELSE IF route.handler = "updateCustomer"
        THEN IF ~Stored(customers, id)
             THEN /\ UNCHANGED <<customers, customerIdSeq>>
                  /\ Answer(IF id = 0 THEN nan ELSE 404, {})
             ELSE /\ customers' = [customers EXCEPT ![id] = IF body = "" THEN @ ELSE body]
                  /\ UNCHANGED customerIdSeq
                  /\ Answer(200, {customers'[id]})
        ELSE IF ~Stored(customers, id)
             THEN /\ UNCHANGED <<customers, customerIdSeq>>
                  /\ Answer(IF id = 0 THEN nan ELSE 404, {})
             ELSE /\ customers' = [customers EXCEPT ![id] = ""]
                  /\ UNCHANGED customerIdSeq
                  /\ Answer(200, {})
     /\ UNCHANGED <<now, dbVars, memVars, priceVars, statusVars, cartVars>>

(* -------------------------------- cart --------------------------------- *)
\* addItem: setItems([...items, item])
addItem(items, item) == Append(items, item)

\* removeItem: setItems(items.filter((_, i) => i !== index)), index from 1
removeItem(items, index) ==
  [i \in 1 .. Len(items) - 1 |-> IF i < index THEN items[i] ELSE items[i + 1]]

RECURSIVE reduceAmounts(_)
\* items.reduce((sum, item) => sum + item.amount, 0)
reduceAmounts(items) ==
  IF items = <<>> THEN 0
  ELSE reduceAmounts(SubSeq(items, 1, Len(items) - 1)) + items[Len(items)].amount

subtotal(items) == reduceAmounts(items)

\* Math.max(subtotal - discount, 0)
total(items, disc) ==
  IF subtotal(items) - disc > 0 THEN subtotal(items) - disc ELSE 0

LinesOf(items) == {items[i].line : i \in 1 .. Len(items)}

\* a form's onSubmit with no file selected: addItem of the current render is
\* called in the same task
SubmitForm(amount) ==
  /\ lines < MaxLines
  /\ lines' = lines + 1
  /\ cart' = addItem(cart, [line |-> lines + 1, amount |-> amount])
  /\ added' = added \cup {lines + 1}
  /\ UNCHANGED <<now, dbVars, memVars, calcVars, statusVars, accessVars,
                 discount, pending, removed, checkout>>

\* a form's onSubmit with a file selected, up to `await
\* convertFileToBase64(selectedFile)`: the addItem it holds is the one of the
\* render it was made in, closed over that render's items
SubmitFormWithFile(amount) ==
  /\ lines < MaxLines
  /\ pending = NoPending
  /\ lines' = lines + 1
  /\ pending' = [items |-> cart, item |-> [line |-> lines + 1, amount |-> amount]]
  /\ UNCHANGED <<now, dbVars, memVars, priceVars, statusVars, accessVars,
                 discount, added, removed, checkout>>

\* the conversion is done and onSubmit goes on: addItem(...) sets the items
\* to those it closed over plus the new one
FileConverted ==
  /\ pending # NoPending
  /\ cart' = addItem(pending.items, pending.item)
  /\ added' = added \cup {pending.item.line}
  /\ pending' = NoPending
  /\ UNCHANGED <<now, dbVars, memVars, calcVars, statusVars, accessVars,
                 discount, lines, removed, checkout>>

\* ShoppingCart: the remove button of a line
RemoveItem(index) ==
  /\ index \in 1 .. Len(cart)
  /\ cart' = removeItem(cart, index)
  /\ removed' = removed \cup {cart[index].line}
  /\ UNCHANGED <<now, dbVars, memVars, calcVars, statusVars, accessVars,
                 discount, pending, lines, added, checkout>>

\* clearCart: setItems([]); setDiscount(0)
ClearCart ==
  /\ cart # <<>> \/ discount # 0
  /\ cart' = <<>>
  /\ discount' = 0
  /\ removed' = removed \cup LinesOf(cart)
  /\ UNCHANGED <<now, dbVars, memVars, calcVars, statusVars, accessVars,
                 pending, lines, added, checkout>>

\* ShoppingCart.applyDiscount: the value as it is, or that percentage of the
\* subtotal of this render
ApplyDiscount(discountType, value) ==
  /\ discount' = IF discountType = "fixed" THEN value
                 ELSE (value * subtotal(cart)) \div 100
  /\ discount' # discount
  /\ UNCHANGED <<now, dbVars, memVars, priceVars, statusVars, accessVars,
                 pending, lines, added, removed, checkout>>

\* CheckoutModal.onSubmit and createOrderMutation: total, discount and the
\* lines of the cart are posted and stored as sent
Checkout ==
  /\ cart # <<>>
  /\ ~checkout.receipt
  /\ checkout' = [total |-> total(cart, discount), discount |-> discount,
                  amounts |-> [i \in 1 .. Len(cart) |-> cart[i].amount],
                  receipt |-> TRUE]
  /\ UNCHANGED <<now, dbVars, memVars, priceVars, statusVars, accessVars,
                 discount, pending, lines, added, removed>>

\* createOrderMutation.onSuccess, the timer of the receipt: clearCart()
ReceiptPrinted ==
  /\ checkout.receipt
  /\ checkout' = [checkout EXCEPT !.receipt = FALSE]
  /\ cart' = <<>>
  /\ discount' = 0
  /\ removed' = removed \cup LinesOf(cart)
  /\ UNCHANGED <<now, dbVars, memVars, calcVars, statusVars, accessVars,
                 pending, lines, added>>

(* ----------------------------- MemStorage ------------------------------ *)
\* seedInitialData: the three sample orders the constructor creates
SeedNumbers ==
  { OrderNumberOf(<<"2", "0", "2", "3">>, <<"0", "0", "4", "1">>),
    OrderNumberOf(<<"2", "0", "2", "3">>, <<"0", "0", "4", "0">>),
    OrderNumberOf(<<"2", "0", "2", "3">>, <<"0", "0", "3", "9">>) }

SeedOrders ==
  { [id |-> 1, orderNumber |-> OrderNumberOf(<<"2", "0", "2", "3">>, <<"0", "0", "4", "1">>),
     createdAt |-> 0],
    [id |-> 2, orderNumber |-> OrderNumberOf(<<"2", "0", "2", "3">>, <<"0", "0", "4", "0">>),
     createdAt |-> 0],
    [id |-> 3, orderNumber |-> OrderNumberOf(<<"2", "0", "2", "3">>, <<"0", "0", "3", "9">>),
     createdAt |-> 0] }

\* insertOrder.orderNumber of the calls made on MemStorage.createOrder
MemSupplied ==
  { <<>>,
    OrderNumberOf(ds0, sequentialNum(String(6))),
    WithSuffix(OrderNumberOf(ds0, sequentialNum(String(6))), 0) }

\* orders whose createdAt.toDateString() equals date.toDateString()
memTodayOrders(tbl, t) == Cardinality({o \in tbl : DayOf(o.createdAt) = DayOf(t)})

\* Math.floor(Math.random() * 1000)
RandomSuffixes == 0 .. MaxSuffix

\* the order number MemStorage.createOrder settles on
MemOrderNumber(provided, taken, tbl, t, rnd) ==
  IF provided # <<>> /\ provided \notin taken THEN provided
  ELSE LET candidate ==
             OrderNumberOf(dateString(NewDate(t)),
                           sequentialNum(String(memTodayOrders(tbl, t) + 1)))
       IN IF candidate \in taken THEN WithSuffix(candidate, rnd) ELSE candidate

\* MemStorage.createOrder: no await inside, so the call is one step
MemCreateOrder(provided, t, rnd) ==
  /\ memCalls < MaxMemCalls
  /\ memCalls' = memCalls + 1
  /\ now' = t
  /\ LET number == MemOrderNumber(provided, memOrderNumbers, memOrders, t, rnd)
         regenerated == provided = <<>> \/ provided \in memOrderNumbers
         candidate == OrderNumberOf(dateString(NewDate(t)),
                                    sequentialNum(String(memTodayOrders(memOrders, t) + 1)))
     IN /\ orderCurrentId' = orderCurrentId + 1
        /\ memOrderNumbers' = memOrderNumbers \cup {number}
        /\ memOrders' = memOrders \cup {[id |-> orderCurrentId, orderNumber |-> number,
                                         createdAt |-> t]}
        /\ memLast' = [before |-> {o.orderNumber : o \in memOrders},
                       regenerated |-> regenerated,
                       fallback |-> regenerated /\ candidate \in memOrderNumbers,
                       stored |-> Cardinality(memOrders') - Cardinality(memOrders),
                       number |-> number]
  /\ UNCHANGED <<dbVars, priceVars, restVars>>

NoMemCall ==
  [before |-> {}, regenerated |-> FALSE, fallback |-> FALSE, stored |-> 0,
   number |-> <<>>]

(* ------------------------- pricing: the steps -------------------------- *)
\* a direct call of calculateDocumentPrintingPrice
CalculateDocument ==
  /\ call.kind = "document"
  /\ price = null
  /\ price' = calculateDocumentPrintingPrice(call.params, call.rules,
                                             call.documentAnalysis)
  /\ pricingDefaults' = pricingDefaultsAfterCall(pricingDefaults)
  /\ UNCHANGED <<now, dbVars, memVars, restVars, call, priceCalculation, cart, priceAgain,
                 otherCalls>>

\* a direct call of calculateTarpaulinPrintingPrice
CalculateTarpaulin ==
  /\ call.kind = "tarpaulin"
  /\ price = null
  /\ price' = calculateTarpaulinPrintingPrice(call.params, call.rules)
  /\ pricingDefaults' = pricingDefaultsAfterCall(pricingDefaults)
  /\ UNCHANGED <<now, dbVars, memVars, restVars, call, priceCalculation, cart, priceAgain,
                 otherCalls>>

\* a direct call of calculateLaminationPrice
CalculateLamination ==
  /\ call.kind = "lamination"
  /\ price = null
  /\ price' = calculateLaminationPrice(call.params, call.rules)
  /\ pricingDefaults' = pricingDefaultsAfterCall(pricingDefaults)
  /\ UNCHANGED <<now, dbVars, memVars, restVars, call, priceCalculation, cart, priceAgain,
                 otherCalls>>

\* the specifications the calls in between are made with
OtherParams ==
  [document |-> [paperType |-> "Glossy", copies |-> Num(2), colorMode |-> "Color"],
   tarpaulin |-> [width |-> Num(3), height |-> Num(4), eyelets |-> Num(6),
                  rope |-> TRUE, stand |-> TRUE],
   lamination |-> [size |-> "A4", quantity |-> Num(10)]]

\* any calculator called with another specification between the two calls;
\* its result is dropped
OtherCall(kind) ==
  /\ call.kind \in {"document", "tarpaulin", "lamination"}
  /\ price # null
  /\ priceAgain = null
  /\ otherCalls < MaxOtherCalls
  /\ otherCalls' = otherCalls + 1
  /\ LET dropped ==
          IF kind = "document"
          THEN calculateDocumentPrintingPrice(OtherParams.document, undefined, undefined)
          ELSE IF kind = "tarpaulin"
          THEN calculateTarpaulinPrintingPrice(OtherParams.tarpaulin, undefined)
          ELSE calculateLaminationPrice(OtherParams.lamination, undefined)
     IN /\ "total" \in DOMAIN dropped
        /\ pricingDefaults' = pricingDefaultsAfterCall(pricingDefaults)
  /\ UNCHANGED <<now, dbVars, memVars, restVars, call, price, priceCalculation, cart,
                 priceAgain>>

\* the first call made once more, same specification, same rules argument
CalculateAgain ==
  /\ call.kind \in {"document", "tarpaulin", "lamination"}
  /\ price # null
  /\ priceAgain = null
  /\ priceAgain' =
       IF call.kind = "document"
       THEN calculateDocumentPrintingPrice(call.params, call.rules,
                                           call.documentAnalysis)
       ELSE IF call.kind = "tarpaulin"
       THEN calculateTarpaulinPrintingPrice(call.params, call.rules)
       ELSE calculateLaminationPrice(call.params, call.rules)
  /\ pricingDefaults' = pricingDefaultsAfterCall(pricingDefaults)
  /\ UNCHANGED <<now, dbVars, memVars, restVars, call, price, priceCalculation, cart,
                 otherCalls>>

\* DocumentPrintingForm, the effect on the watched values; the form's
\* documentAnalysis state is never undefined
DocumentPriceEffect ==
  /\ call.kind = "document"
  /\ call.params # null
  /\ call.documentAnalysis # undefined
  /\ priceCalculation = null
  /\ priceCalculation' = documentPriceEffect(call.params, call.documentAnalysis)
  /\ UNCHANGED <<now, dbVars, memVars, restVars, call, price, cart, pricingDefaults,
                 priceAgain, otherCalls>>

\* TarpaulinPrintingForm, the effect on the watched values
TarpaulinPriceEffect ==
  /\ call.kind = "tarpaulin"
  /\ call.params # null
  /\ priceCalculation = null
  /\ priceCalculation' = calculateTarpaulinPrintingPrice(call.params, call.rules)
  /\ UNCHANGED <<now, dbVars, memVars, restVars, call, price, cart, pricingDefaults,
                 priceAgain, otherCalls>>

\* LaminationForm, the effect on the watched values
LaminationPriceEffect ==
  /\ call.kind = "lamination"
  /\ call.params # null
  /\ priceCalculation = null
  /\ priceCalculation' = calculateLaminationPrice(call.params, call.rules)
  /\ UNCHANGED <<now, dbVars, memVars, restVars, call, price, cart, pricingDefaults,
                 priceAgain, otherCalls>>

\* DocumentPrintingForm.onSubmit, which handleSubmit runs on values that
\* pass formSchema
DocumentOnSubmit ==
  /\ call.kind = "document"
  /\ call.params # null
  /\ cart = <<>>
  /\ documentFormSchema(call.params)
  /\ priceCalculation # null
  /\ cart' = addItem(cart, [serviceType |-> "document",
                            quantity |-> Number(call.params.copies),
                            unitPrice |-> priceCalculation.unitPrice,
                            amount |-> priceCalculation.total])
  /\ UNCHANGED <<now, dbVars, memVars, restVars, call, price, priceCalculation,
                 pricingDefaults, priceAgain, otherCalls>>

\* TarpaulinPrintingForm.onSubmit
TarpaulinOnSubmit ==
  /\ call.kind = "tarpaulin"
  /\ call.params # null
  /\ cart = <<>>
  /\ tarpaulinFormSchema(call.params)
  /\ priceCalculation # null
  /\ cart' = addItem(cart, [serviceType |-> "tarpaulin",
                            quantity |-> Num(1),
                            unitPrice |-> priceCalculation.unitPrice,
                            amount |-> priceCalculation.total])
  /\ UNCHANGED <<now, dbVars, memVars, restVars, call, price, priceCalculation,
                 pricingDefaults, priceAgain, otherCalls>>

\* LaminationForm.onSubmit
LaminationOnSubmit ==
  /\ call.kind = "lamination"
  /\ call.params # null
  /\ cart = <<>>
  /\ laminationFormSchema(call.params)
  /\ priceCalculation # null
  /\ cart' = addItem(cart, [serviceType |-> "lamination",
                            quantity |-> Number(call.params.quantity),
                            unitPrice |-> priceCalculation.unitPrice,
                            amount |-> priceCalculation.total])
  /\ UNCHANGED <<now, dbVars, memVars, restVars, call, price, priceCalculation,
                 pricingDefaults, priceAgain, otherCalls>>

\* StandardServiceForm.onSubmit
StandardOnSubmit ==
  /\ call.kind = "standard"
  /\ cart = <<>>
  /\ standardFormSchema(call.values)
  /\ LET values == [quantity |-> Number(call.values.quantity)]
         line == standardPrice(call.service, values)
     IN cart' = addItem(cart, [serviceType |-> "standard",
                               quantity |-> values.quantity,
                               unitPrice |-> line.unitPrice,
                               amount |-> line.total])
  /\ UNCHANGED <<now, dbVars, memVars, restVars, call, price, priceCalculation,
                 pricingDefaults, priceAgain, otherCalls>>

Init ==
  /\ now = 0
  /\ countAsText \in BOOLEAN
  /\ orders = {}
  /\ orderItems = {}
  /\ ordersIdSeq = 1
  /\ itemsIdSeq = 1
  /\ reqs = [r \in Reqs |-> IdleReq]
  /\ del = IdleDel
  /\ deletes = 0
  /\ issued = {}
  /\ memOrders = SeedOrders
  /\ memOrderNumbers = SeedNumbers
  /\ orderCurrentId = 4
  /\ memCalls = 0
  /\ memLast = NoMemCall
  /\ call = NoCall
  /\ price = null
  /\ priceCalculation = null
  /\ cart = <<>>
  /\ pricingDefaults = defaultPricingRules
  /\ priceAgain = null
  /\ otherCalls = 0
  /\ StatusInit
  /\ AccessInit
  /\ CartInit

Next ==
  \/ \E r \in Reqs, body \in Bodies, t \in Later : PostOrders(r, body, t)
  \/ \E r \in Reqs : CountToday(r)
  \/ \E r \in Reqs, t \in Later : InsertOrder(r, t)
  \/ \E r \in Reqs : InsertItem(r)
  \/ \E r \in Reqs : Respond(r)
  \/ \E id \in 1 .. NumReqs : DeleteItems(id)
  \/ DeleteOrderRow

Spec == Init /\ [][Next]_vars

\* checkout bodies of two line items
TwoItemBodies ==
  [hasOrderNumber : {TRUE}, orderNumber : {<<>>, clientOrderNumber},
   items : {<<"ok", "ok">>, <<"ok", "invalid">>}]

\* order creation and deletion with carts of two lines
DeleteNext ==
  \/ \E r \in Reqs, body \in TwoItemBodies, t \in Later : PostOrders(r, body, t)
  \/ \E r \in Reqs : CountToday(r)
  \/ \E r \in Reqs, t \in Later : InsertOrder(r, t)
  \/ \E r \in Reqs : InsertItem(r)
  \/ \E r \in Reqs : Respond(r)
  \/ \E id \in 1 .. NumReqs : DeleteItems(id)
  \/ DeleteOrderRow

DeleteSpec == Init /\ [][DeleteNext]_vars

StatusNext ==
  \/ \E id \in 1 .. NumStatusOrders + 1, status \in RequestedStatuses :
       PatchOrderStatus(id, status)
  \/ \E c \in Cards, id \in StatusOrders : HandleStatusChange(c, id)
  \/ \E c \in Cards : RefetchOrders(c)

StatusSpec == Init /\ [][StatusNext]_vars

AccessNext ==
  \E role \in Roles, method \in {"GET", "POST", "PATCH", "DELETE"},
     path \in CustomerPaths, body \in CustomerNames \cup {""}, nan \in {404, 500} :
       CustomerRequest(role, method, path, body, nan)

AccessSpec == Init /\ [][AccessNext]_vars

CartNext ==
  \/ \E amount \in Amounts : SubmitForm(amount)
  \/ \E amount \in Amounts : SubmitFormWithFile(amount)
  \/ FileConverted
  \/ \E index \in 1 .. MaxLines : RemoveItem(index)
  \/ ClearCart
  \/ \E value \in FixedDiscounts : ApplyDiscount("fixed", value)
  \/ \E value \in PercentageDiscounts : ApplyDiscount("percentage", value)
  \/ Checkout
  \/ ReceiptPrinted

CartSpec == Init /\ [][CartNext]_vars

MemNext ==
  \E provided \in MemSupplied, t \in Later, rnd \in RandomSuffixes :
      MemCreateOrder(provided, t, rnd)

MemSpec == Init /\ [][MemNext]_vars

\* one call, drawn from Calls, against stores that stay as they start
PriceInit ==
  /\ now = 0
  /\ countAsText = FALSE
  /\ orders = {}
  /\ orderItems = {}
  /\ ordersIdSeq = 1
  /\ itemsIdSeq = 1
  /\ reqs = [r \in Reqs |-> IdleReq]
  /\ del = IdleDel
  /\ deletes = 0
  /\ issued = {}
  /\ memOrders = SeedOrders
  /\ memOrderNumbers = SeedNumbers
  /\ orderCurrentId = 4
  /\ memCalls = 0
  /\ memLast = NoMemCall
  /\ call \in Calls
  /\ price = null
  /\ priceCalculation = null
  /\ cart = <<>>
  /\ pricingDefaults = defaultPricingRules
  /\ priceAgain = null
  /\ otherCalls = 0
  /\ StatusInit
  /\ AccessInit
  /\ CartInit

PriceNext ==
  \/ CalculateDocument
  \/ CalculateTarpaulin
  \/ CalculateLamination
  \/ \E kind \in {"document", "tarpaulin", "lamination"} : OtherCall(kind)
  \/ CalculateAgain
  \/ DocumentPriceEffect
  \/ TarpaulinPriceEffect
  \/ LaminationPriceEffect
  \/ DocumentOnSubmit
  \/ TarpaulinOnSubmit
  \/ LaminationOnSubmit
  \/ StandardOnSubmit

PriceSpec == PriceInit /\ [][PriceNext]_vars

(* ------------------------------ properties ----------------------------- *)
\* a finished request whose body and items were all acceptable and whose
\* order number was left to the server
ServerNumbered(r) ==
  /\ reqs[r].pc = "done"
  /\ reqs[r].generated
  /\ \A i \in 1 .. Len(reqs[r].items) : reqs[r].items[i] = "ok"

\* the orders of a table created on calendar day d
CreatedOnDay(tbl, d) == Cardinality({o \in tbl : DayOf(o.createdAt) = d})

ItemsOf(orderId) == {i \in orderItems : i.orderId = orderId}

\* C1: when all the order-creation requests of one calendar day have run, in
\* whatever interleaving, every one of them was answered 201 and their order
\* numbers are pairwise distinct.
C1_AllConcurrentSucceed ==
  (/\ \A r \in Reqs : ServerNumbered(r)
   /\ deletes = 0
   /\ DayOf(now) = 0)
  => /\ \A r \in Reqs : reqs[r].status = 201
     /\ \A r1, r2 \in Reqs :
          reqs[r1].orderNumber = reqs[r2].orderNumber => r1 = r2

\* C2: once a request is answered, the order it inserted is stored with all
\* of the request's items or not stored at all.
C2_NoPartialOrder ==
  \A r \in Reqs :
    (/\ reqs[r].pc = "done"
     /\ deletes = 0
     /\ \E o \in orders : o.id = reqs[r].orderId)
    => /\ Cardinality(ItemsOf(reqs[r].orderId)) = Len(reqs[r].items)
       /\ reqs[r].status = 201

\* C3: no two rows of the orders table carry the same order number.
C3_OrderNumbersUnique ==
  \A o1, o2 \in orders : o1.orderNumber = o2.orderNumber => o1.id = o2.id

\* an insert was rejected because its number, generated or supplied, is the
\* number of a stored order
C3_Witness ==
  \E r \in Reqs :
    /\ reqs[r].collided
    /\ \E o \in orders : o.orderNumber = reqs[r].orderNumber

\* C4: an order number createOrder has assigned is never assigned to another
\* order, deleted orders included.
C4_NeverReused ==
  \A a, b \in issued : (a[3] /\ b[3] /\ a[2] = b[2]) => a[1] = b[1]

\* C6: a request is not failed by the first uniqueness violation it meets.
C6_FirstViolationRetried ==
  \A r \in Reqs :
    (reqs[r].collided /\ reqs[r].failed) => reqs[r].attempts >= 2

\* C7: a request that met a collision went on with a number carrying a
\* 3-digit suffix, and no request makes more than 5 retries.
C7_SuffixAndBoundedRetry ==
  \A r \in Reqs :
    /\ reqs[r].attempts <= 1 + 5
    /\ reqs[r].collided =>
         /\ Len(reqs[r].orderNumber) >= 4
         /\ reqs[r].orderNumber[Len(reqs[r].orderNumber) - 3] = "-"

\* C9: a 201 answer is sent only when the order row and every line item of
\* the request were written and nothing failed.
C9_SuccessAfterWrites ==
  \A r \in Reqs :
    reqs[r].status = 201 =>
      /\ reqs[r].orderId # 0
      /\ reqs[r].written = Len(reqs[r].items)
      /\ ~reqs[r].failed

\* a request with a line item was answered 201
C9_Witness ==
  \E r \in Reqs :
    /\ reqs[r].status = 201
    /\ Len(reqs[r].items) >= 1
    /\ \E r2 \in Reqs : reqs[r2].failed /\ reqs[r2].orderId # 0

\* C10: the number createOrder generates is ORD-<YYMMDD of today>-<NNNN> with
\* NNNN the count of orders already created today plus one, on 4 digits.
C10_CandidateIsCountPlusOne ==
  [][\A r \in Reqs :
       (reqs[r].pc = "count" /\ reqs'[r].pc = "insert") =>
         reqs'[r].orderNumber =
           OrderNumberOf(dateString(NewDate(reqs[r].at)),
                         padStart(String(CreatedOnDay(orders, DayOf(reqs[r].at)) + 1),
                                  4, "0"))]_vars

\* ORD-YYMMDD-NNNN or ORD-YYMMDD-NNNN-RRR
IsDigit(c) == \E i \in 1 .. Len(Digits) : Digits[i] = c

AllDigits(s, from, to) == \A i \in from .. to : IsDigit(s[i])

WellFormed(num) ==
  /\ Len(num) \in {15, 19}
  /\ SubSeq(num, 1, 4) = <<"O", "R", "D", "-">>
  /\ AllDigits(num, 5, 10)
  /\ num[11] = "-"
  /\ AllDigits(num, 12, 15)
  /\ Len(num) = 19 => (num[16] = "-" /\ AllDigits(num, 17, 19))

\* C11: every order number stored in the orders table, and so every one a 201
\* answer returns, reads ORD-YYMMDD-NNNN or ORD-YYMMDD-NNNN-RRR.
C11_StoredNumbersWellFormed ==
  \A o \in orders : WellFormed(o.orderNumber)

\* C5: the number MemStorage.createOrder returns was not in the store before
\* the call.
C5_ReturnedNumberIsNew ==
  memCalls > 0 => memLast.number \notin memLast.before

\* C8: when the candidate and its suffixed retry are both taken, nothing is
\* stored.
C8_ExhaustedStoresNothing ==
  (memLast.fallback /\ memLast.number \in memLast.before) => memLast.stored = 0

(* --------------------------- pricing properties ------------------------ *)
\* a result that carries a price
IsPrice(res) == "total" \in DOMAIN res

\* a number at or below zero, a number below zero
NonPositive(x) == x.t = "number" /\ x.n <= 0

Negative(x) == x.t = "number" /\ x.n < 0

\* the rules a call is priced under
RulesOf(c) ==
  OrDefault(c.rules,
            IF c.kind = "document" THEN defaultPricingRules.document
            ELSE IF c.kind = "tarpaulin" THEN defaultPricingRules.tarpaulin
            ELSE defaultPricingRules.lamination)

\* the entry of a rule table for a key, or the neutral value without one
Lookup(table, key, neutral) ==
  IF key \in DOMAIN table THEN table[key] ELSE neutral

\* a rule table with the neutral value written in for a key it lacks
WithNeutral(table, key, neutral) ==
  [k \in DOMAIN table \cup {key} |-> Lookup(table, k, neutral)]

\* C12: a tarpaulin specification with width <= 0, height <= 0 or eyelets < 0
\* gets no price from calculateTarpaulinPrintingPrice.
C12_TarpaulinRejectsNonPositive ==
  (/\ call.kind = "tarpaulin"
   /\ call.params # null
   /\ \/ NonPositive(call.params.width)
      \/ NonPositive(call.params.height)
      \/ Negative(call.params.eyelets))
  => ~IsPrice(price)

\* C13: a document with copies <= 0 or no colorMode, or a lamination with
\* quantity <= 0, gets no price, from the calculator or on the form, and no
\* cart line.
C13_InvalidSpecificationRejected ==
  (/\ call.kind \in {"document", "lamination"}
   /\ call.params # null
   /\ IF call.kind = "document"
      THEN NonPositive(call.params.copies) \/ call.params.colorMode = ""
      ELSE NonPositive(call.params.quantity))
  => /\ ~IsPrice(price)
     /\ ~IsPrice(priceCalculation)
     /\ cart = <<>>

\* width > 0, height > 0, eyelets >= 0
ValidTarpaulin(p) ==
  /\ Gt(p.width, Num(0))
  /\ Gt(p.height, Num(0))
  /\ Geq(p.eyelets, Num(0))

\* C14: for a valid tarpaulin, baseCost = width * height * basePrice,
\* eyeletCost = eyelets * eyeletPrice, ropeCost and standCost are the rope and
\* stand prices when chosen and 0 otherwise, total is their sum and unitPrice
\* is baseCost.
C14_TarpaulinFormula ==
  (/\ call.kind = "tarpaulin"
   /\ call.params # null
   /\ ValidTarpaulin(call.params)
   /\ price # null)
  => LET p == call.params
         R == RulesOf(call)
         base == Times(Times(p.width, p.height), R.basePrice)
         eyelet == Times(p.eyelets, R.eyelets)
         rope == IF p.rope THEN R.rope ELSE Num(0)
         stand == IF p.stand THEN R.stand ELSE Num(0)
     IN /\ price.breakdown.baseCost = base
        /\ price.breakdown.eyeletCost = eyelet
        /\ price.breakdown.ropeCost = rope
        /\ price.breakdown.standCost = stand
        /\ price.total = Plus(Plus(Plus(base, eyelet), rope), stand)
        /\ price.unitPrice = base

\* 3 x 4 ft, 6 eyelets, rope, no stand at 25 / 10 / 50 / 200 costs 410
C14_Witness ==
  /\ call.kind = "tarpaulin"
  /\ call.rules = undefined
  /\ call.params = [width |-> Num(3), height |-> Num(4), eyelets |-> Num(6),
                    rope |-> TRUE, stand |-> FALSE]
  /\ price # null
  /\ price.total = Num(410)
  /\ price.unitPrice = Num(300)

\* C15: Auto Detect with a page analysis and copies >= 1 costs
\* (colorPages * (colorPageRate + surcharge) + bwPages * (blackPageRate +
\* surcharge)) * copies, and unitPrice is the cost of one copy over
\* max(colorPages + bwPages, 1).
C15_AutoDetectFormula ==
  (/\ call.kind = "document"
   /\ call.params # null
   /\ call.params.colorMode = "Auto Detect"
   /\ call.documentAnalysis # undefined
   /\ Geq(call.params.copies, Num(1))
   /\ price # null)
  => LET p == call.params
         a == call.documentAnalysis
         R == RulesOf(call)
         surcharge == Lookup(R.paperTypes, p.paperType, Num(0))
         perCopy ==
           Plus(Times(a.colorPages, Plus(R.colorPageRate, surcharge)),
                Times(a.bwPages, Plus(R.blackPageRate, surcharge)))
         totalPages == Plus(a.colorPages, a.bwPages)
         pages == IF Gt(totalPages, Num(1)) THEN totalPages ELSE Num(1)
     IN /\ price.total = Times(perCopy, p.copies)
        /\ price.unitPrice = Over(perCopy, pages)

\* rates 2 / 1, Glossy + 1, 4 colour and 6 b&w pages, 1 copy: 24, or 2.4 a page
C15_Witness ==
  /\ call.kind = "document"
  /\ call.params = [paperSize |-> "A4", paperType |-> "Glossy", copies |-> Num(1),
                    colorMode |-> "Auto Detect"]
  /\ call.rules # undefined
  /\ call.rules.colorPageRate = Num(2)
  /\ DOMAIN call.rules.paperTypes = {"Glossy"}
  /\ call.documentAnalysis # undefined
  /\ call.documentAnalysis.colorPages = Num(4)
  /\ call.documentAnalysis.bwPages = Num(6)
  /\ price # null
  /\ price.total = Num(24)
  /\ price.unitPrice = Frac(12, 5)

\* C16: Color, Black & White, and Auto Detect without analysis, with
\* copies >= 1, cost (baseRate + surcharge) * assumedPages * copies: baseRate
\* the colour rate, the black rate or their midpoint, assumedPages the page
\* count of the analysis when there is one (a count of 0 read as none) and 1
\* otherwise.
C16_ExplicitModeFormula ==
  (/\ call.kind = "document"
   /\ call.params # null
   /\ \/ call.params.colorMode \in {"Color", "Black & White"}
      \/ call.params.colorMode = "Auto Detect" /\ call.documentAnalysis = undefined
   /\ Geq(call.params.copies, Num(1))
   /\ price # null)
  => LET p == call.params
         R == RulesOf(call)
         surcharge == Lookup(R.paperTypes, p.paperType, Num(0))
         baseRate ==
           IF p.colorMode = "Color" THEN R.colorPageRate
           ELSE IF p.colorMode = "Black & White" THEN R.blackPageRate
           ELSE Over(Plus(R.colorPageRate, R.blackPageRate), Num(2))
         assumedPages ==
           IF call.documentAnalysis = undefined THEN Num(1)
           ELSE OrElse(call.documentAnalysis.pageCount, Num(1))
     IN price.total = Times(Times(Plus(baseRate, surcharge), assumedPages), p.copies)

\* C17: a lamination of quantity >= 1 has unitPrice = basePrice *
\* sizeMultiplier(size) and total = unitPrice * quantity; a quantity below 1
\* gets no price.
C17_LaminationFormulaAndQuantity ==
  (/\ call.kind = "lamination"
   /\ call.params # null
   /\ call.params.quantity.t = "number"
   /\ price # null)
  => LET p == call.params
         R == RulesOf(call)
         unit == Times(R.basePrice, Lookup(R.sizes, p.size, Num(1)))
     IN IF Geq(p.quantity, Num(1))
        THEN price.unitPrice = unit /\ price.total = Times(unit, p.quantity)
        ELSE ~IsPrice(price)

C19_TarpaulinMonotone ==
  (/\ call.kind = "tarpaulin"
   /\ call.params # null
   /\ price # null)
  => LET p == call.params
         totalOf(q) == calculateTarpaulinPrintingPrice(q, call.rules).total
     IN /\ \A e \in EyeletValues :
             Gt(e, p.eyelets) => Geq(totalOf([p EXCEPT !.eyelets = e]), price.total)
        /\ ~p.rope => Geq(totalOf([p EXCEPT !.rope = TRUE]), price.total)
        /\ ~p.stand => Geq(totalOf([p EXCEPT !.stand = TRUE]), price.total)

\* a tarpaulin without rope was priced, and with rope it costs more
C19_Witness ==
  /\ call.kind = "tarpaulin"
  /\ call.params # null
  /\ ~call.params.rope
  /\ price # null
  /\ Gt(calculateTarpaulinPrintingPrice([call.params EXCEPT !.rope = TRUE],
                                        call.rules).total,
        price.total)

\* C20: one more copy of a document, one more piece of a lamination or of a
\* standard service never lowers the total, whatever the quantity was,
\* the quantities the calculator replaces by 1 included.
C20_QuantityMonotone ==
  /\ (call.kind = "document" /\ call.params # null /\ price # null)
     => Geq(calculateDocumentPrintingPrice(
              [call.params EXCEPT !.copies = Plus(call.params.copies, Num(1))],
              call.rules, call.documentAnalysis).total,
            price.total)
  /\ (call.kind = "lamination" /\ call.params # null /\ price # null)
     => Geq(calculateLaminationPrice(
              [call.params EXCEPT !.quantity = Plus(call.params.quantity, Num(1))],
              call.rules).total,
            price.total)
  /\ (call.kind = "standard" /\ cart # <<>>)
     => Geq(standardPrice(call.service,
                          [quantity |-> Plus(cart[1].quantity, Num(1))]).total,
            cart[1].amount)

\* a document of 0 copies was priced as one copy
C20_Witness ==
  /\ call.kind = "document"
  /\ call.params # null
  /\ call.params.copies = Num(0)
  /\ price # null
  /\ Gt(price.total, Num(0))
  /\ price.breakdown.copies = Num(1)

\* copies >= 1 and, with an analysis, page counts >= 0
ValidDocument(p, a) ==
  /\ Geq(p.copies, Num(1))
  /\ a # undefined => (Geq(a.colorPages, Num(0)) /\ Geq(a.bwPages, Num(0)))

\* C21: for a valid specification, under rules without a negative rate, the
\* calculator returns unitPrice >= 0 and total >= 0.
C21_NonNegativePrices ==
  (/\ call.kind \in {"document", "tarpaulin", "lamination"}
   /\ call.params # null
   /\ price # null
   /\ IF call.kind = "document"
      THEN ValidDocument(call.params, call.documentAnalysis)
      ELSE IF call.kind = "tarpaulin" THEN ValidTarpaulin(call.params)
      ELSE Geq(call.params.quantity, Num(1)))
  => /\ Geq(price.unitPrice, Num(0))
     /\ Geq(price.total, Num(0))

\* a valid tarpaulin with a stand was priced
C21_Witness ==
  /\ call.kind = "tarpaulin"
  /\ call.params # null
  /\ ValidTarpaulin(call.params)
  /\ call.params.stand
  /\ call.params.eyelets = Num(0)
  /\ price # null
  /\ Gt(price.total, price.unitPrice)

\* C22: total can be rebuilt from the breakdown alone: the four costs of a
\* tarpaulin added up, basePrice * sizeMultiplier * quantity of a lamination,
\* (colorPagesTotal + bwPagesTotal) * copies = totalPerCopy * copies of an
\* auto-detected document, pageRate * copies of any other document.
C22_BreakdownRebuildsTotal ==
  (/\ call.kind \in {"document", "tarpaulin", "lamination"}
   /\ call.params # null
   /\ price # null)
  => LET b == price.breakdown
     IN IF call.kind = "tarpaulin"
        THEN price.total =
               Plus(Plus(Plus(b.baseCost, b.eyeletCost), b.ropeCost), b.standCost)
        ELSE IF call.kind = "lamination"
        THEN price.total = Times(Times(b.basePrice, b.sizeMultiplier), b.quantity)
        ELSE IF "totalPerCopy" \in DOMAIN b
        THEN /\ price.total = Times(Plus(b.colorPagesTotal, b.bwPagesTotal), b.copies)
             /\ price.total = Times(b.totalPerCopy, b.copies)
        ELSE price.total = Times(b.pageRate, b.copies)

\* a lamination of quantity 0 was priced as one piece, and its breakdown
\* says so
C22_Witness ==
  /\ call.kind = "lamination"
  /\ call.params # null
  /\ call.params.quantity = Num(0)
  /\ price # null
  /\ price.breakdown.quantity = Num(1)
  /\ price.total = price.unitPrice

\* C29: the unitPrice and total DocumentPrintingForm works out and puts on
\* the cart line are those calculateDocumentPrintingPrice returns for the
\* same values, analysis and rules of the selected service.
C29_FormPriceIsCalculatorPrice ==
  (/\ call.kind = "document"
   /\ call.params # null
   /\ price # null
   /\ priceCalculation # null)
  => /\ priceCalculation.unitPrice = price.unitPrice
     /\ priceCalculation.total = price.total
     /\ cart # <<>> =>
          (cart[1].unitPrice = price.unitPrice /\ cart[1].amount = price.total)

C24_ClientNumberIsTemporary ==
  \A r \in Reqs :
    (reqs[r].status = 201 /\ reqs[r].orderNumber = clientOrderNumber)
      => /\ reqs[r].generated
         /\ <<reqs[r].orderId, clientOrderNumber, TRUE>> \in issued

\* C27: deleteOrder removes an order and its items as one unit, item
\* insertions for the same order running alongside: answered 200, no item
\* row references the order; answered otherwise, the order row and every
\* item row it had are as they were.
C27_DeleteOrderIsOneUnit ==
  del.pc = "done" =>
    IF del.status = 200
    THEN /\ ~\E o \in orders : o.id = del.orderId
         /\ ~\E i \in orderItems : i.orderId = del.orderId
    ELSE del.removed \subseteq orderItems

\* C28: whatever PATCH /api/orders/:id/status requests arrive, a status that
\* changes moves to the next stage of pending, in_progress, ready,
\* completed: never back, never over a stage, never out of completed.
C28_StatusAdvancesByOneStage ==
  [][\A id \in StatusOrders :
       orderStatus'[id] # orderStatus[id]
         => Stage(orderStatus'[id]) = Stage(orderStatus[id]) + 1]_vars

\* C30: the routes under /api/customers serve only a session whose role is
\* admin or cashier: staff is answered 403, no session 401, and neither is
\* sent customer rows nor changes one.
C30_CustomersForAdminAndCashierOnly ==
  (lastReq.method # "" /\ lastReq.role \notin {"admin", "cashier"})
    => /\ lastRes.status = IF lastReq.role = "staff" THEN 403 ELSE 401
       /\ lastRes.customers = {}
       /\ ~lastRes.changed

RECURSIVE SumOf(_)
SumOf(amounts) ==
  IF amounts = <<>> THEN 0
  ELSE SumOf(SubSeq(amounts, 1, Len(amounts) - 1)) + amounts[Len(amounts)]

\* C25: no cart update is lost, an addItem issued after the wait for the
\* file conversion included: the cart holds every line that was added and
\* not removed, and none that was removed.
C25_NoLostCartUpdate ==
  /\ (added \ removed) \subseteq LinesOf(cart)
  /\ LinesOf(cart) \cap removed = {}

\* C26: the order a checkout stores has total + discount = the sum of its
\* line amounts, and total >= 0.
C26_StoredTotalsAddUp ==
  checkout # NoCheckout =>
    /\ checkout.total + checkout.discount = SumOf(checkout.amounts)
    /\ checkout.total >= 0

====
